---- MODULE Spec2Model ----
(***************************************************************************)
(* Model of the API -> MCP proxy (mcpManager).                             *)
(*                                                                         *)
(*   main.py                 proxy_call (/proxy), mcp_simple_call          *)
(*                           (/mcp_call)                                   *)
(*   main.py                 get_config, update_config (/api/config)       *)
(*   mcp_service_manager.py  MCPServiceManager: the service registry       *)
(*   service_management_api.py  record_service_call, get_service_stats     *)
(*                                                                         *)
(* A call is modelled step by step: resolve (normalise the payload and     *)
(* find the service id), fetch (read the descriptor, open the HTTP         *)
(* client), send (issue the outbound request), and one completing step per *)
(* upstream outcome, each of which runs the handler's finally block.       *)
(***************************************************************************)
EXTENDS Integers, Sequences, FiniteSets, TLC

VARIABLES
    services,        \* the upstreamservice table: id -> row
    DEFAULT_TIMEOUT_SECONDS,   \* the process-wide default timeout
    pc,              \* position of the call in flight
    entry,           \* which endpoint the call came in on
    request_data,    \* the inbound JSON body
    method, path, service_id, service_name,
    params, json_data, timeout, headers,   \* the handler's locals
    svc,             \* the descriptor read by get_service
    client,          \* the httpx.AsyncClient of the call
    open_clients,    \* clients opened and not yet closed, process-wide
    sent,            \* outbound HTTP requests issued by the call
    upstream,        \* what the upstream did with the request
    response,        \* what the call returns to its caller
    app_config,      \* the appconfig row: default_timeout_seconds
    config_pc,       \* position of each update_config request
    cfg,             \* the AppConfig object each update_config holds
    stats_file,      \* logs/service_stats.json: name -> call_count
    record_pc,       \* position of each record_service_call request
    stats_data,      \* the statistics each record_service_call has read
    recorded         \* record_service_call requests answered "success"

vars == <<services, DEFAULT_TIMEOUT_SECONDS, pc, entry, request_data, method, path, service_id,
          service_name, params, json_data, timeout, headers, svc, client,
          open_clients, sent, upstream, response, app_config, config_pc, cfg,
          stats_file, record_pc, stats_data, recorded>>

\* the state of the configuration endpoints and of the monitoring endpoints
ConfigState == <<app_config, config_pc, cfg>>
StatsState == <<stats_file, record_pc, stats_data, recorded>>

locals == <<method, path, service_id, service_name, params, json_data,
            timeout, headers>>

-----------------------------------------------------------------------------
(* Bounds of the model *)

\* largest row id the registry hands out
MaxId == 2

\* the worker threads that serve the synchronous endpoints
Threads == {1, 2}

-----------------------------------------------------------------------------
(* Python values.  Every value carries its type; payload fields are named  *)
(* per type.                                                               *)

PyNone == [ty |-> "none"]
PyBool(b) == [ty |-> "bool", b |-> b]
PyInt(n) == [ty |-> "int", n |-> n]
PyStr(s) == [ty |-> "str", s |-> s]
PyList(l) == [ty |-> "list", l |-> l]
PyDict(d) == [ty |-> "dict", d |-> d]

EmptyMap == [k \in {} |-> PyNone]
EmptyDict == PyDict(EmptyMap)

IsNone(v) == v.ty = "none"
IsStr(v) == v.ty = "str"
IsDict(v) == v.ty = "dict"

\* bool(v)
Truthy(v) ==
    CASE v.ty = "none" -> FALSE
      [] v.ty = "bool" -> v.b
      [] v.ty = "int"  -> v.n # 0
      [] v.ty = "str"  -> v.s # ""
      [] v.ty = "list" -> v.l # <<>>
      [] v.ty = "dict" -> DOMAIN v.d # {}

\* a or b
PyOr(a, b) == IF Truthy(a) THEN a ELSE b

\* d.get(k) and d.get(k, dflt) on the mapping d
Get(d, k) == IF k \in DOMAIN d THEN d[k] ELSE PyNone
GetOr(d, k, dflt) == IF k \in DOMAIN d THEN d[k] ELSE dflt

\* the mapping f without the keys whose value is the marker absent
Absent == [ty |-> "absent"]
Drop(f) == [k \in {x \in DOMAIN f : f[x] # Absent} |-> f[k]]

-----------------------------------------------------------------------------
(* json.loads / json.dumps on the texts and values the model uses.         *)

JsonObjA == PyDict([a |-> PyInt(1)])
JsonReNested == PyDict([method |-> PyStr("post"), path |-> PyStr("/x"),
                        params |-> JsonObjA])

\* the graph of json.loads: <<text, value>>; any other text raises
JsonTable ==
    { <<"null", PyNone>>, <<"true", PyBool(TRUE)>>, <<"false", PyBool(FALSE)>>,
      <<"0", PyInt(0)>>, <<"123", PyInt(123)>>,
      <<"\"123\"", PyStr("123")>>, <<"\"null\"", PyStr("null")>>,
      <<"\"hello\"", PyStr("hello")>>, <<"\"\"", PyStr("")>>,
      <<"[]", PyList(<<>>)>>, <<"[1]", PyList(<<PyInt(1)>>)>>,
      <<"{}", EmptyDict>>, <<"{\"a\": 1}", JsonObjA>>,
      <<"{\"method\": \"post\", \"path\": \"/x\", \"params\": {\"a\": 1}}",
        JsonReNested>> }

JsonTexts == {p[1] : p \in JsonTable}
JsonValues == {p[2] : p \in JsonTable}

\* json.loads(s): ok is FALSE when it raises
JsonLoads(s) ==
    IF s \in JsonTexts
    THEN [ok |-> TRUE, v |-> (CHOOSE p \in JsonTable : p[1] = s)[2]]
    ELSE [ok |-> FALSE, v |-> PyNone]

\* json.dumps(v)
JsonDumps(v) == (CHOOSE p \in JsonTable : p[2] = v)[1]

\* try: x = json.loads(x)  except: pass     (main.py 161-173)
LoadsIfStr(v) ==
    IF IsStr(v) /\ JsonLoads(v.s).ok THEN JsonLoads(v.s).v ELSE v

-----------------------------------------------------------------------------
(* str operations on the strings the model uses.                           *)

\* s.upper()
Upper(s) ==
    CASE s = "get"   -> "GET"
      [] s = "post"  -> "POST"
      [] s = "patch" -> "PATCH"
      [] s = "trace" -> "TRACE"
      [] OTHER       -> s

\* the characters of a path string
Chars(s) ==
    CASE s = ""     -> <<>>
      [] s = "/x"   -> <<"/", "x">>
      [] s = " /x"  -> <<" ", "/", "x">>
      [] s = "/xy"  -> <<"/", "x", "y">>
      [] s = "/z"   -> <<"/", "z">>

\* a in b, for two strings
StrIn(a, b) ==
    LET A == Chars(a)
        B == Chars(b)
    IN  \E i \in 0..(Len(B) - Len(A)) : SubSeq(B, i + 1, i + Len(A)) = A

\* s.strip()
StrStrip(s) == IF s = " /x" THEN "/x" ELSE s

\* int(v): ok is FALSE on ValueError / TypeError
PyIntOf(v) ==
    CASE v.ty = "int"  -> [ok |-> TRUE, n |-> v.n]
      [] v.ty = "bool" -> [ok |-> TRUE, n |-> IF v.b THEN 1 ELSE 0]
      [] v.ty = "str" /\ v.s \in {"0", "1", "2", "3"} ->
            [ok |-> TRUE,
             n |-> CASE v.s = "0" -> 0 [] v.s = "1" -> 1
                     [] v.s = "2" -> 2 [] v.s = "3" -> 3]
      [] OTHER -> [ok |-> FALSE, n |-> 0]

-----------------------------------------------------------------------------
(* mcp_service_manager.py: the registry.  A url is the sequence of its     *)
(* characters, "u" standing for the scheme, host and port.                 *)

IsSpace(c) == c = " "

RECURSIVE LStrip(_)
LStrip(u) == IF u # <<>> /\ IsSpace(Head(u)) THEN LStrip(Tail(u)) ELSE u

RECURSIVE RStrip(_)
RStrip(u) ==
    IF u # <<>> /\ IsSpace(u[Len(u)]) THEN RStrip(SubSeq(u, 1, Len(u) - 1))
    ELSE u

EndsWithSlash(u) == u # <<>> /\ u[Len(u)] = "/"

_normalize_base_url(url) ==
    IF url = <<>> THEN url
    ELSE LET u == RStrip(LStrip(url))
         IN  IF EndsWithSlash(u) THEN SubSeq(u, 1, Len(u) - 1) ELSE u

_parse_json_params(value) ==
    CASE IsNone(value) -> PyNone
      [] IsDict(value) -> value
      [] IsStr(value)  ->
            IF JsonLoads(value.s).ok /\ IsDict(JsonLoads(value.s).v)
            THEN JsonLoads(value.s).v ELSE PyNone
      [] OTHER -> PyNone

NoSvc == [id |-> 0]

Ids == DOMAIN services

\* the id SQLite gives the next row: one more than the largest in the table
NewId == IF Ids = {} THEN 1 ELSE (CHOOSE i \in Ids : \A j \in Ids : j <= i) + 1

\* select(UpstreamService).all(): the rows in rowid order
list_services ==
    [i \in 1..Cardinality(Ids) |->
        services[CHOOSE x \in Ids : Cardinality({y \in Ids : y < x}) = i - 1]]

\* session.get(UpstreamService, service_id)
session_get(id) == IF id \in Ids THEN services[id] ELSE NoSvc

\* get_service: raises 404 when the row is missing (found is FALSE)
get_service(id) == [found |-> id \in Ids, svc |-> session_get(id)]

\* select(...).where(name == service_name).first()
get_service_by_name(name) ==
    LET hits == {i \in Ids : services[i].name = name}
    IN  IF hits = {} THEN NoSvc
        ELSE services[CHOOSE i \in hits : \A j \in hits : i <= j]

create_service(payload) ==
    /\ NewId <= MaxId
    /\ services' = [i \in Ids \cup {NewId} |->
          IF i \in Ids THEN services[i]
          ELSE [id |-> NewId,
                name |-> GetOr(payload, "name", PyStr("")).s,
                url |-> _normalize_base_url(GetOr(payload, "url", <<>>)),
                service_path |->
                    StrStrip(GetOr(payload, "service_path", PyStr("")).s),
                method |-> Upper(PyOr(Get(payload, "method"), PyStr("GET")).s),
                request_params |->
                    _parse_json_params(Get(payload, "request_params")),
                headers |-> _parse_json_params(Get(payload, "headers"))]]

update_service(id, payload) ==
    /\ id \in Ids
    /\ LET old == services[id]
           new == [id |-> old.id,
                   name |-> IF "name" \in DOMAIN payload
                            THEN PyOr(payload["name"], PyStr(old.name)).s
                            ELSE old.name,
                   url |-> IF "url" \in DOMAIN payload
                           THEN _normalize_base_url(
                                   IF payload["url"] # <<>> THEN payload["url"]
                                   ELSE old.url)
                           ELSE old.url,
                   service_path |->
                       IF "service_path" \in DOMAIN payload
                       THEN StrStrip(PyOr(payload["service_path"], PyStr("")).s)
                       ELSE old.service_path,
                   method |-> IF "method" \in DOMAIN payload
                                 /\ ~IsNone(payload["method"])
                              THEN Upper(PyOr(payload["method"], PyStr("GET")).s)
                              ELSE old.method,
                   request_params |->
                       IF "request_params" \in DOMAIN payload
                       THEN _parse_json_params(payload["request_params"])
                       ELSE old.request_params,
                   headers |-> IF "headers" \in DOMAIN payload
                               THEN _parse_json_params(payload["headers"])
                               ELSE old.headers]
       IN  services' = [services EXCEPT ![id] = new]

delete_service(id) ==
    /\ id \in Ids
    /\ services' = [i \in Ids \ {id} |-> services[i]]

-----------------------------------------------------------------------------
(* main.py proxy_call, lines 119-173: the payload becomes the handler's    *)
(* locals (the canonical request).                                         *)

Normalize(rd) ==
    LET \* 120-127
        method0  == Get(rd, "method")
        path0    == Get(rd, "path")
        params0  == Get(rd, "params")
        json0    == Get(rd, "json")
        timeout0 == Get(rd, "timeout")
        headers0 == Get(rd, "headers")
        \* 138-146: the nested format
        nested   == "data" \in DOMAIN rd /\ IsDict(rd["data"])
        data     == rd["data"].d
        method1  == IF nested THEN PyOr(method0, Get(data, "method")) ELSE method0
        path1    == IF nested THEN PyOr(path0, Get(data, "path")) ELSE path0
        params1  == IF nested THEN PyOr(params0, Get(data, "params")) ELSE params0
        json1    == IF nested THEN PyOr(json0, Get(data, "json")) ELSE json0
        timeout1 == IF nested THEN PyOr(timeout0, Get(data, "timeout")) ELSE timeout0
        headers1 == IF nested THEN PyOr(headers0, Get(data, "headers")) ELSE headers0
        \* 150-158: params holds the whole request
        renested == IsDict(params1) /\ "method" \in DOMAIN params1.d
        mcp      == params1.d
        method2  == IF renested THEN PyOr(method1, Get(mcp, "method")) ELSE method1
        path2    == IF renested THEN PyOr(path1, Get(mcp, "path")) ELSE path1
        json2    == IF renested THEN PyOr(json1, Get(mcp, "json")) ELSE json1
        timeout2 == IF renested THEN PyOr(timeout1, Get(mcp, "timeout")) ELSE timeout1
        headers2 == IF renested THEN PyOr(headers1, Get(mcp, "headers")) ELSE headers1
        params2  == IF renested THEN GetOr(mcp, "params", EmptyDict) ELSE params1
    IN  [method |-> method2, path |-> path2,
         service_id |-> Get(rd, "service_id"),
         service_name |-> Get(rd, "service_name"),
         \* 161-173: JSON given as a string
         params |-> LoadsIfStr(params2), json_data |-> LoadsIfStr(json2),
         timeout |-> timeout2, headers |-> headers2]

-----------------------------------------------------------------------------
(* main.py proxy_call, lines 176-229: which service is meant.              *)

\* the first row of rows among the positions hits, or NoSvc
FirstWhere(rows, hits) ==
    IF hits = {} THEN NoSvc
    ELSE rows[CHOOSE i \in hits : \A j \in hits : i <= j]

\* the exact pass with the methods compared as they are written
ExactMatchCaseSensitive(rows, p, m) ==
    FirstWhere(rows, {i \in DOMAIN rows :
        rows[i].service_path = p /\ rows[i].method = m})

\* 185-188
ExactMatch(rows, p, m) ==
    FirstWhere(rows, {i \in DOMAIN rows :
        rows[i].service_path = p /\ Upper(rows[i].method) = Upper(m)})

\* 192-195
PathMatch(rows, p) ==
    FirstWhere(rows, {i \in DOMAIN rows : rows[i].service_path = p})

\* 199-202
SubstringMatch(rows, p) ==
    FirstWhere(rows, {i \in DOMAIN rows :
        StrIn(p, rows[i].service_path) \/ StrIn(rows[i].service_path, p)})

\* the passes of proxy_call without the exact one
ProxyMatchPathFirst(rows, p, m) ==
    IF PathMatch(rows, p) # NoSvc THEN PathMatch(rows, p)
    ELSE SubstringMatch(rows, p)

\* 182-202: the three passes of proxy_call
ProxyMatch(rows, p, m) ==
    IF ExactMatch(rows, p, m) # NoSvc THEN ExactMatch(rows, p, m)
    ELSE IF PathMatch(rows, p) # NoSvc THEN PathMatch(rows, p)
    ELSE SubstringMatch(rows, p)

\* HTTPException(status_code, detail); detail is the message, piece by piece
HttpError(status, detail) == [status |-> status, detail |-> detail]

NoMatchDetail(m, p) == <<"cannot match a service; current request: ", m, " ", p>>
MissingDetail == <<"missing service_id or service_name, and no match possible">>
NameNotFoundDetail(name) == <<"service does not exist (name: ", name, ")">>
BadIdDetail == <<"service_id must be a valid integer">>
IdNotFoundDetail == <<"service does not exist">>

\* 176-229 after normalisation n, with matched the row the heuristic of the
\* endpoint finds (looked at only when the heuristic runs): ok and the integer
\* id, or the error raised
Resolve(n, matched) ==
    LET heuristic == ~Truthy(n.service_id) /\ ~Truthy(n.service_name)
        \* 204-206
        sid1      == IF heuristic THEN PyInt(matched.id) ELSE n.service_id
        sname1    == IF heuristic THEN PyStr(matched.name) ELSE n.service_name
        byname    == get_service_by_name(sname1.s)
        \* 217-221
        sid2      == IF ~Truthy(sid1) /\ Truthy(sname1) THEN PyInt(byname.id)
                     ELSE sid1
    IN  IF heuristic /\ ~(Truthy(n.path) /\ Truthy(n.method))
        THEN [ok |-> FALSE, err |-> HttpError(400, MissingDetail), n |-> n]
        ELSE IF heuristic /\ matched = NoSvc
        THEN [ok |-> FALSE,
              err |-> HttpError(400, NoMatchDetail(n.method.s, n.path.s)),
              n |-> n]
        ELSE IF ~Truthy(sid1) /\ Truthy(sname1) /\ byname = NoSvc
        THEN [ok |-> FALSE,
              err |-> HttpError(404, NameNotFoundDetail(sname1.s)),
              n |-> [n EXCEPT !.service_id = sid1, !.service_name = sname1]]
        ELSE IF ~PyIntOf(sid2).ok
        THEN [ok |-> FALSE, err |-> HttpError(400, BadIdDetail),
              n |-> [n EXCEPT !.service_id = sid2, !.service_name = sname1]]
        ELSE [ok |-> TRUE, err |-> HttpError(0, <<>>),
              n |-> [n EXCEPT !.service_id = PyInt(PyIntOf(sid2).n),
                              !.service_name = sname1]]

-----------------------------------------------------------------------------
(* The call in flight.                                                     *)

NoClient == [base_url |-> <<>>, timeout |-> 0, state |-> "none"]
NoResponse == [status |-> 0, content |-> PyNone, detail |-> <<>>]

\* what FastAPI returns for a raised HTTPException
Raised(err) == [status |-> err.status, content |-> PyNone, detail |-> err.detail]

\* what the server returns for any other exception
InternalError == [status |-> 500, content |-> PyNone,
                  detail |-> <<"Internal Server Error">>]

\* JSONResponse(status_code, content)
JSONResponse(status, content) ==
    [status |-> status, content |-> content, detail |-> <<>>]

\* the upstream's answer to one request
UpstreamResponses ==
    { [status_code |-> 200, content_type |-> "application/json",
       text |-> "{\"a\": 1}"],
      [status_code |-> 201, content_type |-> "Application/JSON; charset=utf-8",
       text |-> "oops"],
      [status_code |-> 404, content_type |-> "text/plain", text |-> "oops"],
      [status_code |-> 503, content_type |-> "Text/Plain; Boundary=AbC",
       text |-> "busy"],
      [status_code |-> 500, content_type |-> "", text |-> ""] }

\* s.lower(), for header names and content types
Lower(s) ==
    CASE s = "Content-Type" -> "content-type"
      [] s = "X-Key" -> "x-key"
      [] s = "Application/JSON; charset=utf-8" -> "application/json; charset=utf-8"
      [] s = "Text/Plain; Boundary=AbC" -> "text/plain; boundary=abc"
      [] OTHER -> s

\* "application/json" in content_type
HasJson(ct) == ct \in {"application/json", "application/json; charset=utf-8"}

SetLocals(n) ==
    /\ method' = n.method
    /\ path' = n.path
    /\ service_id' = n.service_id
    /\ service_name' = n.service_name
    /\ params' = n.params
    /\ json_data' = n.json_data
    /\ timeout' = n.timeout
    /\ headers' = n.headers

\* the call ends: it returns r
Return(r) == pc' = "done" /\ response' = r

\* httpx.AsyncClient(base_url=base_url, timeout=DEFAULT_TIMEOUT_SECONDS)
OpenClient(base_url) ==
    /\ client' = [base_url |-> base_url, timeout |-> DEFAULT_TIMEOUT_SECONDS,
                  state |-> "open"]
    /\ open_clients' = open_clients + 1

\* a finally block that leaves the client open
ProxyFinallySkipped == UNCHANGED <<client, open_clients>>

\* finally: if close_after: await client.aclose()     (main.py 283-288)
ProxyFinally ==
    /\ client' = [client EXCEPT !.state = "closed"]
    /\ open_clients' = open_clients - 1

\* base_url = svc.url, without one trailing slash     (main.py 245-248)
BaseUrl(url) == IF EndsWithSlash(url) THEN SubSeq(url, 1, Len(url) - 1) ELSE url

-----------------------------------------------------------------------------
(* POST /proxy                                                             *)

\* 119-229
proxy_call_resolve(rd) ==
    /\ pc = "idle"
    /\ LET n == Normalize(rd)
           r == Resolve(n, ProxyMatch(list_services, n.path.s, n.method.s))
       IN  /\ SetLocals(r.n)
           /\ IF r.ok THEN pc' = "resolved" /\ response' = NoResponse
              ELSE Return(Raised(r.err))
    /\ entry' = "proxy"
    /\ request_data' = rd
    /\ svc' = NoSvc
    /\ client' = NoClient
    /\ sent' = <<>>
    /\ upstream' = "none"
    /\ UNCHANGED <<services, DEFAULT_TIMEOUT_SECONDS, open_clients,
                   ConfigState, StatsState>>

\* 231-251
proxy_call_fetch ==
    /\ pc = "resolved" /\ entry = "proxy"
    /\ LET g == get_service(service_id.n)
       IN  IF ~g.found
           THEN /\ Return(Raised(HttpError(404, IdNotFoundDetail)))
                /\ UNCHANGED <<method, params, svc, client, open_clients>>
           ELSE /\ svc' = g.svc
                /\ method' = IF ~Truthy(method)
                             THEN PyOr(PyStr(g.svc.method), PyStr("GET"))
                             ELSE method
                /\ params' = IF ~Truthy(params) /\ Truthy(g.svc.request_params)
                             THEN g.svc.request_params ELSE params
                /\ OpenClient(BaseUrl(g.svc.url))
                /\ pc' = "client_open"
                /\ UNCHANGED response
    /\ UNCHANGED <<services, DEFAULT_TIMEOUT_SECONDS, entry, request_data, path,
                   service_id, service_name, json_data, timeout, headers, sent,
                   upstream, ConfigState, StatsState>>

\* 258-261: the headers of the outbound request
ProxyHeaders(h) ==
    IF IsNone(h) THEN PyDict([x \in {"Content-Type"} |-> PyStr("application/json")])
    ELSE IF "Content-Type" \notin DOMAIN h.d
            /\ "content-type" \notin {Lower(k) : k \in DOMAIN h.d}
    THEN PyDict([x \in DOMAIN h.d \cup {"Content-Type"} |->
                    IF x = "Content-Type" THEN PyStr("application/json")
                    ELSE h.d[x]])
    ELSE h

\* 256
ProxyRequestPath == IF svc.service_path # "" THEN PyStr(svc.service_path) ELSE path

\* 263: the method handed to client.request
ProxyMethod == Upper(method.s)

\* 253-269: the request goes out; an exception on the way runs the finally
\* block and surfaces as a 500
proxy_call_send ==
    /\ pc = "client_open" /\ entry = "proxy"
    /\ IF (~IsNone(headers) /\ ~IsDict(headers)) \/ ~IsStr(ProxyRequestPath)
       THEN /\ Return(InternalError)
            /\ ProxyFinally
            /\ UNCHANGED <<headers, sent>>
       ELSE /\ headers' = ProxyHeaders(headers)
            /\ sent' = Append(sent,
                  [method |-> ProxyMethod,
                   base_url |-> client.base_url,
                   path |-> ProxyRequestPath.s,
                   headers |-> ProxyHeaders(headers),
                   params |-> params,
                   json |-> json_data,
                   timeout |-> IF ~IsNone(timeout) THEN timeout
                               ELSE PyInt(DEFAULT_TIMEOUT_SECONDS)])
            /\ pc' = "awaiting"
            /\ UNCHANGED <<response, client, open_clients>>
    /\ UNCHANGED <<services, DEFAULT_TIMEOUT_SECONDS, entry, request_data, method,
                   path, service_id, service_name, params, json_data, timeout,
                   svc, upstream, ConfigState, StatsState>>

\* a translation that reports upstream errors as gateway errors
ProxyTranslateAsGatewayError(resp) ==
    JSONResponse(IF resp.status_code >= 400 THEN 502 ELSE resp.status_code,
                 PyDict([raw |-> PyStr(resp.text)]))

\* 272-279
ProxyTranslate(resp) ==
    LET content_type == Lower(resp.content_type)
    IN  IF HasJson(content_type)
        THEN IF JsonLoads(resp.text).ok
             THEN JSONResponse(resp.status_code, JsonLoads(resp.text).v)
             ELSE JSONResponse(resp.status_code,
                               PyDict([raw |-> PyStr(resp.text)]))
        ELSE JSONResponse(resp.status_code,
                          PyDict([raw |-> PyStr(resp.text),
                                  content_type |-> PyStr(content_type)]))

\* what proxy_call makes of httpx.TimeoutException: caught as httpx.HTTPError
\* (281-282)
ProxyOnTimeout == Raised(HttpError(502, <<"upstream request error: ", "timeout">>))

\* 281-282 for any other httpx.HTTPError
ProxyOnTransportError ==
    Raised(HttpError(502, <<"upstream request error: ", "connect">>))

CallFrame == <<services, DEFAULT_TIMEOUT_SECONDS, entry, request_data, method,
               path, service_id, service_name, params, json_data, timeout,
               headers, svc, sent, ConfigState, StatsState>>

\* the upstream answers
proxy_call_response(resp) ==
    /\ upstream' = "answered"
    /\ pc = "awaiting" /\ entry = "proxy"
    /\ Return(ProxyTranslate(resp))
    /\ ProxyFinally
    /\ UNCHANGED CallFrame

\* a handler that issues the request once more after a timeout
proxy_call_timeout_retry ==
    /\ pc = "awaiting" /\ entry = "proxy"
    /\ IF Len(sent) < 2
       THEN /\ sent' = Append(sent, sent[1])
            /\ UNCHANGED <<pc, response, client, open_clients, upstream>>
       ELSE /\ upstream' = "timeout"
            /\ Return(ProxyOnTimeout)
            /\ ProxyFinally
            /\ UNCHANGED sent
    /\ UNCHANGED <<services, DEFAULT_TIMEOUT_SECONDS, entry, request_data,
                   locals, svc, ConfigState, StatsState>>

\* the upstream does not answer within the timeout
proxy_call_timeout ==
    /\ upstream' = "timeout"
    /\ pc = "awaiting" /\ entry = "proxy"
    /\ Return(ProxyOnTimeout)
    /\ ProxyFinally
    /\ UNCHANGED CallFrame

\* the connection fails
proxy_call_transport_error ==
    /\ upstream' = "error"
    /\ pc = "awaiting" /\ entry = "proxy"
    /\ Return(ProxyOnTransportError)
    /\ ProxyFinally
    /\ UNCHANGED CallFrame

-----------------------------------------------------------------------------
(* POST /mcp_call                                                          *)

\* 311-318
McpExtract(rd) ==
    [method |-> GetOr(rd, "method", PyStr("GET")),
     path |-> GetOr(rd, "path", PyStr("")),
     service_id |-> Get(rd, "service_id"),
     service_name |-> Get(rd, "service_name"),
     params |-> GetOr(rd, "params", EmptyDict),
     json_data |-> GetOr(rd, "json", EmptyDict),
     timeout |-> Get(rd, "timeout"),
     headers |-> GetOr(rd, "headers", EmptyDict)]

\* 325-338: the two passes of mcp_simple_call
McpMatch(rows, p, m) ==
    IF ExactMatch(rows, p, m) # NoSvc THEN ExactMatch(rows, p, m)
    ELSE PathMatch(rows, p)

\* 311-365
mcp_simple_call_resolve(rd) ==
    /\ pc = "idle"
    /\ LET n == McpExtract(rd)
           r == Resolve(n, McpMatch(list_services, n.path.s, n.method.s))
       IN  /\ SetLocals(r.n)
           /\ IF r.ok THEN pc' = "resolved" /\ response' = NoResponse
              ELSE Return(Raised(r.err))
    /\ entry' = "mcp_call"
    /\ request_data' = rd
    /\ svc' = NoSvc
    /\ client' = NoClient
    /\ sent' = <<>>
    /\ upstream' = "none"
    /\ UNCHANGED <<services, DEFAULT_TIMEOUT_SECONDS, open_clients,
                   ConfigState, StatsState>>

\* 378-379: headers.update(svc.headers)
DictUpdate(h, more) ==
    PyDict([k \in DOMAIN h.d \cup DOMAIN more.d |->
               IF k \in DOMAIN more.d THEN more.d[k] ELSE h.d[k]])

\* 368-387
mcp_simple_call_fetch ==
    /\ pc = "resolved" /\ entry = "mcp_call"
    /\ LET g == get_service(service_id.n)
       IN  IF ~g.found
           THEN /\ Return(Raised(HttpError(404, IdNotFoundDetail)))
                /\ UNCHANGED <<method, params, headers, svc, client, open_clients>>
           ELSE IF ~Truthy(headers) /\ Truthy(g.svc.headers) /\ ~IsDict(headers)
           THEN \* 379 raises AttributeError
                /\ Return(InternalError)
                /\ UNCHANGED <<method, params, headers, svc, client, open_clients>>
           ELSE /\ svc' = g.svc
                /\ method' = IF ~Truthy(method)
                             THEN PyOr(PyStr(g.svc.method), PyStr("GET"))
                             ELSE method
                /\ params' = IF ~Truthy(params) /\ Truthy(g.svc.request_params)
                             THEN g.svc.request_params ELSE params
                /\ headers' = IF ~Truthy(headers) /\ Truthy(g.svc.headers)
                              THEN DictUpdate(headers, g.svc.headers)
                              ELSE headers
                /\ OpenClient(BaseUrl(g.svc.url))
                /\ pc' = "client_open"
                /\ UNCHANGED response
    /\ UNCHANGED <<services, DEFAULT_TIMEOUT_SECONDS, entry, request_data, path,
                   service_id, service_name, json_data, timeout, sent, upstream,
                   ConfigState, StatsState>>

\* finally: if close_after: await client.aclose()     (main.py 445-447)
McpFinally ==
    /\ client' = [client EXCEPT !.state = "closed"]
    /\ open_clients' = open_clients - 1

\* 396-427: the methods mcp_simple_call sends
McpMethods == {"GET", "POST", "PUT", "DELETE"}

\* 389-427
mcp_simple_call_send ==
    /\ pc = "client_open" /\ entry = "mcp_call"
    /\ IF Upper(method.s) \notin McpMethods
       THEN /\ Return(Raised(HttpError(400, <<"unsupported HTTP method: ", method.s>>)))
            /\ McpFinally
            /\ UNCHANGED sent
       ELSE /\ sent' = Append(sent,
                  [method |-> Upper(method.s),
                   base_url |-> client.base_url,
                   path |-> path.s,
                   headers |-> headers,
                   params |-> params,
                   json |-> IF Upper(method.s) \in {"POST", "PUT"}
                            THEN json_data ELSE PyNone,
                   timeout |-> IF ~IsNone(timeout) THEN timeout
                               ELSE PyInt(DEFAULT_TIMEOUT_SECONDS)])
            /\ pc' = "awaiting"
            /\ UNCHANGED <<response, client, open_clients>>
    /\ UNCHANGED <<services, DEFAULT_TIMEOUT_SECONDS, entry, request_data, method,
                   path, service_id, service_name, params, json_data, timeout,
                   headers, svc, upstream, ConfigState, StatsState>>

\* 430-439
McpTranslate(resp) ==
    IF JsonLoads(resp.text).ok
    THEN JSONResponse(resp.status_code, JsonLoads(resp.text).v)
    ELSE JSONResponse(resp.status_code,
                      PyDict([content |-> PyStr(resp.text),
                              status_code |-> PyInt(resp.status_code)]))

\* 441-442
McpOnTimeout == Raised(HttpError(408, <<"request timed out">>))

\* 443-444
McpOnTransportError ==
    Raised(HttpError(502, <<"upstream request failed: ", "connect">>))

mcp_simple_call_response(resp) ==
    /\ upstream' = "answered"
    /\ pc = "awaiting" /\ entry = "mcp_call"
    /\ Return(McpTranslate(resp))
    /\ McpFinally
    /\ UNCHANGED CallFrame

mcp_simple_call_timeout ==
    /\ upstream' = "timeout"
    /\ pc = "awaiting" /\ entry = "mcp_call"
    /\ Return(McpOnTimeout)
    /\ McpFinally
    /\ UNCHANGED CallFrame

mcp_simple_call_transport_error ==
    /\ upstream' = "error"
    /\ pc = "awaiting" /\ entry = "mcp_call"
    /\ Return(McpOnTransportError)
    /\ McpFinally
    /\ UNCHANGED CallFrame

-----------------------------------------------------------------------------
(* GET and PUT /api/config, and the start of the process.                  *)

\* float(os.getenv("UPSTREAM_TIMEOUT", "15")) with the variable unset
UPSTREAM_TIMEOUT == 15

\* AppConfig(): the default_timeout_seconds of the row init_db inserts
AppConfigDefault == 15

\* main.py 457-461: the persisted default timeout
get_config == app_config

\* main.py 466-471: the row is read, given the body's value if there is one,
\* and committed
update_config_commit(t, data) ==
    /\ config_pc[t] = "idle"
    /\ app_config' = IF IsNone(data) THEN app_config ELSE data.n
    /\ config_pc' = [config_pc EXCEPT ![t] = "committed"]
    /\ UNCHANGED <<cfg, DEFAULT_TIMEOUT_SECONDS>>

\* main.py 472: session.refresh(cfg) reads the row again
update_config_refresh(t) ==
    /\ config_pc[t] = "committed"
    /\ cfg' = [cfg EXCEPT ![t] = app_config]
    /\ config_pc' = [config_pc EXCEPT ![t] = "refreshed"]
    /\ UNCHANGED <<app_config, DEFAULT_TIMEOUT_SECONDS>>

\* main.py 475-478: the runtime value is set from the object and the request
\* returns
update_config_assign(t) ==
    /\ config_pc[t] = "refreshed"
    /\ DEFAULT_TIMEOUT_SECONDS' = cfg[t]
    /\ cfg' = [cfg EXCEPT ![t] = 0]
    /\ config_pc' = [config_pc EXCEPT ![t] = "idle"]
    /\ UNCHANGED app_config

\* main.py 44-50 and 92: the process starts again.  The module level reads
\* the environment, init_db finds the row it inserted at the first start and
\* leaves it; the database and the statistics file stay, every request in
\* progress is gone.
restart ==
    /\ DEFAULT_TIMEOUT_SECONDS' = UPSTREAM_TIMEOUT
    /\ config_pc' = [t \in Threads |-> "idle"]
    /\ cfg' = [t \in Threads |-> 0]
    /\ pc' = "idle"
    /\ entry' = "none"
    /\ request_data' = EmptyMap
    /\ SetLocals([method |-> PyNone, path |-> PyNone, service_id |-> PyNone,
                  service_name |-> PyNone, params |-> PyNone,
                  json_data |-> PyNone, timeout |-> PyNone, headers |-> PyNone])
    /\ svc' = NoSvc
    /\ client' = NoClient
    /\ open_clients' = 0
    /\ sent' = <<>>
    /\ upstream' = "none"
    /\ response' = NoResponse
    /\ record_pc' = [t \in Threads |-> [at |-> "idle", service_name |-> ""]]
    /\ stats_data' = [t \in Threads |-> [n \in {} |-> 0]]
    /\ UNCHANGED <<services, app_config, stats_file, recorded>>

-----------------------------------------------------------------------------
(* service_management_api.py: the call statistics.                         *)

\* no statistics: {} in the file, or no file
NoStats == [n \in {} |-> 0]

\* the file while a writer has opened it with "w" and not yet written
Truncated == [truncated |-> 0]

NotRecording == [at |-> "idle", service_name |-> ""]

\* service_management_api.py 138: the call_count get_service_stats reports
call_count(stats, name) == IF name \in DOMAIN stats THEN stats[name] ELSE 0

\* 166-173: the file is read; a file that is not JSON raises, and the request
\* answers {"status": "error"}                                  (190-191)
record_service_call_read(t, name) ==
    /\ record_pc[t] = NotRecording
    /\ IF stats_file = Truncated
       THEN UNCHANGED <<record_pc, stats_data>>
       ELSE /\ stats_data' = [stats_data EXCEPT ![t] = stats_file]
            /\ record_pc' = [record_pc EXCEPT
                                ![t] = [at |-> "read", service_name |-> name]]
    /\ UNCHANGED <<stats_file, recorded>>

\* 175-186: the count is raised in the copy read, and the file is opened
\* for writing, which empties it
record_service_call_open(t) ==
    /\ record_pc[t].at = "read"
    /\ LET name == record_pc[t].service_name
       IN  stats_data' = [stats_data EXCEPT ![t] =
               [n \in DOMAIN stats_data[t] \cup {name} |->
                   IF n = name THEN call_count(stats_data[t], name) + 1
                   ELSE stats_data[t][n]]]
    /\ stats_file' = Truncated
    /\ record_pc' = [record_pc EXCEPT ![t].at = "opened"]
    /\ UNCHANGED recorded

\* 187-189: the copy is written and the request answers {"status": "success"}
record_service_call_dump(t) ==
    /\ record_pc[t].at = "opened"
    /\ stats_file' = stats_data[t]
    /\ recorded' = [n \in DOMAIN recorded \cup {record_pc[t].service_name} |->
                       IF n = record_pc[t].service_name
                       THEN call_count(recorded, n) + 1 ELSE recorded[n]]
    /\ stats_data' = [stats_data EXCEPT ![t] = NoStats]
    /\ record_pc' = [record_pc EXCEPT ![t] = NotRecording]

-----------------------------------------------------------------------------
(* Inputs.                                                                 *)

U == <<"u">>

\* payloads of POST /api/services
CreatePayloads ==
    { [name |-> PyStr("echo"), url |-> U, service_path |-> PyStr("/x"),
       method |-> PyStr("get")],
      [name |-> PyStr("echo"), url |-> U \o <<"/">>, service_path |-> PyStr(" /x"),
       method |-> PyStr("TRACE")],
      [name |-> PyStr("pay"), url |-> U, service_path |-> PyStr("/xy"),
       request_params |-> PyStr("{\"a\": 1}"),
       headers |-> PyDict([x \in {"X-Key"} |-> PyStr("k")])] }

\* payloads of PUT /api/services/{id}
UpdatePayloads ==
    { [method |-> PyStr("trace")], [service_path |-> PyStr("")] }

\* requests that differ in how they name the service
ResolveRequests ==
    { Drop([service_id |-> a, service_name |-> b, path |-> c, method |-> d]) :
        a \in {Absent, PyInt(0), PyStr("1"), PyStr("abc")},
        b \in {Absent, PyStr("echo")},
        c \in {Absent, PyStr("/x"), PyStr("/z")},
        d \in {Absent, PyStr("GET"), PyStr("TRACE")} }

HeaderValues ==
    { Absent, EmptyDict, PyDict([x \in {"content-type"} |-> PyStr("text/plain")]),
      PyDict([x \in {"X-Key"} |-> PyStr("k")]) }

\* requests that differ in what is forwarded
ForwardRequests ==
    { Drop([service_id |-> PyInt(1), method |-> m, timeout |-> t, headers |-> h]) :
        m \in {Absent, PyStr("patch")},
        t \in {Absent, PyInt(0), PyInt(3)},
        h \in HeaderValues }

\* requests in the nested and re-nested formats, and with JSON given as text
ShapedRequests ==
    { [service_id |-> PyInt(1),
       data |-> PyDict([method |-> PyStr("post"), path |-> PyStr("/x"),
                        json |-> JsonObjA])],
      [service_name |-> PyStr("echo"), params |-> JsonReNested],
      [service_id |-> PyInt(1), params |-> PyStr("{\"a\": 1}"),
       json |-> PyStr("hello")],
      [service_id |-> PyInt(2), headers |-> PyInt(5)] }

\* requests left to the heuristic: a lower-case method, and a path that
\* contains a registered one
HeuristicRequests ==
    { [path |-> PyStr("/x"), method |-> PyStr("get")],
      [path |-> PyStr("/xy"), method |-> PyStr("GET")] }

ProxyRequests ==
    ResolveRequests \cup ForwardRequests \cup ShapedRequests \cup HeuristicRequests

McpRequests == ResolveRequests \cup ForwardRequests

-----------------------------------------------------------------------------
(* The gateway serving one client: registry writes and calls, one after    *)
(* the other.                                                              *)

Init ==
    /\ services = [i \in {} |-> NoSvc]
    /\ DEFAULT_TIMEOUT_SECONDS = UPSTREAM_TIMEOUT
    /\ pc = "idle"
    /\ entry = "none"
    /\ request_data = EmptyMap
    /\ method = PyNone /\ path = PyNone
    /\ service_id = PyNone /\ service_name = PyNone
    /\ params = PyNone /\ json_data = PyNone
    /\ timeout = PyNone /\ headers = PyNone
    /\ svc = NoSvc
    /\ client = NoClient
    /\ open_clients = 0
    /\ sent = <<>>
    /\ upstream = "none"
    /\ response = NoResponse
    /\ app_config = AppConfigDefault
    /\ config_pc = [t \in Threads |-> "idle"]
    /\ cfg = [t \in Threads |-> 0]
    /\ stats_file = NoStats
    /\ record_pc = [t \in Threads |-> NotRecording]
    /\ stats_data = [t \in Threads |-> NoStats]
    /\ recorded = NoStats

CallState == <<DEFAULT_TIMEOUT_SECONDS, pc, entry, request_data, method, path,
               service_id, service_name, params, json_data, timeout, headers,
               svc, client, open_clients, sent, upstream, response>>

\* no call is in flight
Quiet == pc = "idle"

\* the caller has its response; the handler's frame is gone
call_end ==
    /\ pc = "done"
    /\ pc' = "idle"
    /\ entry' = "none"
    /\ request_data' = EmptyMap
    /\ SetLocals([method |-> PyNone, path |-> PyNone, service_id |-> PyNone,
                  service_name |-> PyNone, params |-> PyNone,
                  json_data |-> PyNone, timeout |-> PyNone, headers |-> PyNone])
    /\ svc' = NoSvc
    /\ client' = NoClient
    /\ sent' = <<>>
    /\ upstream' = "none"
    /\ response' = NoResponse
    /\ UNCHANGED <<services, DEFAULT_TIMEOUT_SECONDS, open_clients,
                   ConfigState, StatsState>>

CreateService == \E p \in CreatePayloads :
    Quiet /\ create_service(p) /\ UNCHANGED <<CallState, ConfigState, StatsState>>

UpdateService == \E i \in 1..MaxId, p \in UpdatePayloads :
    Quiet /\ update_service(i, p) /\ UNCHANGED <<CallState, ConfigState, StatsState>>

DeleteService == \E i \in 1..MaxId :
    Quiet /\ delete_service(i) /\ UNCHANGED <<CallState, ConfigState, StatsState>>

ProxyResolve == \E rd \in ProxyRequests : proxy_call_resolve(rd)

ProxyResponse == \E resp \in UpstreamResponses : proxy_call_response(resp)

McpResolve == \E rd \in McpRequests : mcp_simple_call_resolve(rd)

McpResponse == \E resp \in UpstreamResponses : mcp_simple_call_response(resp)

Next ==
    \/ CreateService
    \/ UpdateService
    \/ DeleteService
    \/ ProxyResolve
    \/ proxy_call_fetch
    \/ proxy_call_send
    \/ ProxyResponse
    \/ proxy_call_timeout
    \/ proxy_call_transport_error
    \/ McpResolve
    \/ mcp_simple_call_fetch
    \/ mcp_simple_call_send
    \/ McpResponse
    \/ mcp_simple_call_timeout
    \/ mcp_simple_call_transport_error
    \/ call_end

Spec == Init /\ [][Next]_vars

-----------------------------------------------------------------------------
(* The normaliser on its own: /proxy called with payloads of every shape,  *)
(* against the registry as it is at start-up.                              *)

Fields == {"method", "path", "params", "json", "timeout", "headers"}

\* values given at the top level, the empty ones among them
TopValues(f) ==
    CASE f = "method"  -> {PyStr("GET"), PyStr("")}
      [] f = "path"    -> {PyStr("/x"), PyStr("")}
      [] f = "params"  -> {JsonObjA, EmptyDict, PyStr("{\"a\": 1}"), PyStr("")}
      [] f = "json"    -> {JsonObjA, EmptyDict, PyInt(123), PyInt(0),
                           PyBool(FALSE), PyStr("")}
      [] f = "timeout" -> {PyInt(3), PyInt(0)}
      [] f = "headers" -> {PyDict([x \in {"X-Key"} |-> PyStr("k")]), EmptyDict}

\* the value given for the same field one level down
NestedValue(f) ==
    CASE f = "method"  -> PyStr("post")
      [] f = "path"    -> PyStr("/z")
      [] f = "params"  -> PyDict([b |-> PyInt(2)])
      [] f = "json"    -> PyList(<<PyInt(1)>>)
      [] f = "timeout" -> PyInt(5)
      [] f = "headers" -> PyDict([x \in {"content-type"} |-> PyStr("text/plain")])

\* {f: t, "data": {f: n}}
WithData(f, t, n) ==
    [k \in {f, "data"} |-> IF k = f THEN t ELSE PyDict([j \in {f} |-> n])]

\* {f: t, "params": {"method": ..., f: n}}; for params itself the re-nested
\* object sits under data
WithReNested(f, t, n) ==
    LET inner == [j \in {"method", f} |-> IF j = f THEN n ELSE PyStr("post")]
    IN  IF f = "params"
        THEN [k \in {f, "data"} |->
                 IF k = f THEN t ELSE PyDict([j \in {f} |-> PyDict(inner)])]
        ELSE [k \in {f, "params"} |-> IF k = f THEN t ELSE PyDict(inner)]

PrecedenceRequests ==
    UNION { UNION { {WithData(f, t, NestedValue(f)),
                     WithReNested(f, t, NestedValue(f))} : t \in TopValues(f) } :
              f \in Fields }

\* a JSON value given as it is and as its JSON text, alone and beside a
\* nested alternative
EncodingRequests ==
    UNION { { [k \in {f} |-> v], [k \in {f} |-> PyStr(JsonDumps(v))],
              WithData(f, v, NestedValue(f)),
              WithData(f, PyStr(JsonDumps(v)), NestedValue(f)) } :
              f \in {"params", "json"}, v \in JsonValues }

NormRequests == PrecedenceRequests \cup EncodingRequests

NormResolve == \E rd \in NormRequests : proxy_call_resolve(rd)

NextNorm ==
    \/ NormResolve
    \/ call_end

SpecNorm == Init /\ [][NextNorm]_vars

-----------------------------------------------------------------------------
(* The configuration endpoint under concurrent requests, and restarts.     *)

\* bodies of PUT /api/config: default_timeout_seconds
ConfigInputs == {PyNone, PyInt(20), PyInt(30)}

\* everything of the call in flight but the process-wide default
CallLocals == <<pc, entry, request_data, method, path, service_id,
                service_name, params, json_data, timeout, headers, svc,
                client, open_clients, sent, upstream, response>>

UpdateConfigCommit == \E t \in Threads, data \in ConfigInputs :
    update_config_commit(t, data) /\ UNCHANGED <<services, CallLocals, StatsState>>

UpdateConfigRefresh == \E t \in Threads :
    update_config_refresh(t) /\ UNCHANGED <<services, CallLocals, StatsState>>

UpdateConfigAssign == \E t \in Threads :
    update_config_assign(t) /\ UNCHANGED <<services, CallLocals, StatsState>>

NextConfig ==
    \/ UpdateConfigCommit
    \/ UpdateConfigRefresh
    \/ UpdateConfigAssign
    \/ restart

SpecConfig == Init /\ [][NextConfig]_vars

-----------------------------------------------------------------------------
(* The monitoring endpoint under concurrent requests.                      *)

\* most record_service_call requests answered in one behaviour
MaxCalls == 3

RecordNames == {"echo", "pay"}

\* requests answered so far, and those that have read the file
RecordsStarted ==
    LET Sum[S \in SUBSET RecordNames] ==
            IF S = {} THEN 0
            ELSE LET n == CHOOSE x \in S : TRUE
                 IN  call_count(recorded, n) + Sum[S \ {n}]
    IN  Sum[RecordNames] + Cardinality({t \in Threads : record_pc[t].at # "idle"})

RecordRead == \E t \in Threads, n \in RecordNames :
    /\ RecordsStarted < MaxCalls
    /\ record_service_call_read(t, n)
    /\ UNCHANGED <<services, CallState, ConfigState>>

RecordOpen == \E t \in Threads :
    record_service_call_open(t) /\ UNCHANGED <<services, CallState, ConfigState>>

RecordDump == \E t \in Threads :
    record_service_call_dump(t) /\ UNCHANGED <<services, CallState, ConfigState>>

NextStats ==
    \/ RecordRead
    \/ RecordOpen
    \/ RecordDump

SpecStats == Init /\ [][NextStats]_vars

-----------------------------------------------------------------------------
(* A call in flight while worker threads serve the registry and the        *)
(* configuration endpoints.  proxy_call and mcp_simple_call run on the     *)
(* event loop, the synchronous endpoints on worker threads, which run      *)
(* between any two steps of a call.                                        *)

ConcRequests ==
    { [service_name |-> PyStr("echo")],
      [path |-> PyStr("/x"), method |-> PyStr("GET")],
      [service_id |-> PyInt(1), timeout |-> PyInt(3)] }

\* payloads of PUT /api/services/{id} sent while a call is in flight
ConcUpdatePayloads == { [name |-> PyStr("pay")], [method |-> PyStr("trace")] }

ConcCreateService == \E p \in CreatePayloads :
    create_service(p) /\ UNCHANGED <<CallState, ConfigState, StatsState>>

ConcUpdateService == \E i \in 1..MaxId, p \in ConcUpdatePayloads :
    update_service(i, p) /\ UNCHANGED <<CallState, ConfigState, StatsState>>

ConcDeleteService == \E i \in 1..MaxId :
    delete_service(i) /\ UNCHANGED <<CallState, ConfigState, StatsState>>

\* one PUT /api/config {"default_timeout_seconds": 20} at a time
ConcConfigCommit ==
    update_config_commit(1, PyInt(20)) /\ UNCHANGED <<services, CallLocals, StatsState>>

ConcConfigRefresh ==
    update_config_refresh(1) /\ UNCHANGED <<services, CallLocals, StatsState>>

ConcConfigAssign ==
    update_config_assign(1) /\ UNCHANGED <<services, CallLocals, StatsState>>

ConcProxyResolve == \E rd \in ConcRequests : proxy_call_resolve(rd)

ConcMcpResolve == \E rd \in ConcRequests : mcp_simple_call_resolve(rd)

NextConc ==
    \/ ConcCreateService
    \/ ConcUpdateService
    \/ ConcDeleteService
    \/ ConcConfigCommit
    \/ ConcConfigRefresh
    \/ ConcConfigAssign
    \/ ConcProxyResolve
    \/ proxy_call_fetch
    \/ proxy_call_send
    \/ ProxyResponse
    \/ proxy_call_timeout
    \/ proxy_call_transport_error
    \/ ConcMcpResolve
    \/ mcp_simple_call_fetch
    \/ mcp_simple_call_send
    \/ McpResponse
    \/ mcp_simple_call_timeout
    \/ mcp_simple_call_transport_error
    \/ call_end

SpecConc == Init /\ [][NextConc]_vars

-----------------------------------------------------------------------------
(* The registry endpoints given urls of every shape.                       *)

\* urls as the administrator types them
Urls ==
    { U, U \o <<"/">>, U \o <<"/", "/">>, U \o <<"/", " ">>,
      <<" ">> \o U \o <<" ", "/">> }

RegistryCreatePayloads ==
    { [name |-> PyStr(n), url |-> u] : n \in {"echo", "pay"}, u \in Urls }

RegistryUpdatePayloads ==
    { [url |-> u] : u \in Urls \cup {<<>>} } \cup { [method |-> PyStr("post")] }

RegistryCreate == \E p \in RegistryCreatePayloads :
    create_service(p) /\ UNCHANGED <<CallState, ConfigState, StatsState>>

RegistryUpdate == \E i \in 1..MaxId, p \in RegistryUpdatePayloads :
    update_service(i, p) /\ UNCHANGED <<CallState, ConfigState, StatsState>>

RegistryDelete == \E i \in 1..MaxId :
    delete_service(i) /\ UNCHANGED <<CallState, ConfigState, StatsState>>

NextRegistry ==
    \/ RegistryCreate
    \/ RegistryUpdate
    \/ RegistryDelete

SpecRegistry == Init /\ [][NextRegistry]_vars

-----------------------------------------------------------------------------
(* Properties.                                                             *)

\* the payload gives key k a value
Present(rd, k) == k \in DOMAIN rd /\ ~IsNone(rd[k])

\* the descriptor the call has read for forwarding
Fetched == svc # NoSvc

\* C1: in proxy_call the first applicable rule decides the target: a
\* serviceId that is present means registry.get(int(serviceId)) whatever
\* else the request holds; else a serviceName that is present means
\* registry.getByName(serviceName); the heuristic over registry.list() is
\* used only when both are absent and path and method are present.
C1_ResolutionOrder ==
    (entry = "proxy" /\ Fetched) =>
        IF Present(request_data, "service_id")
        THEN /\ PyIntOf(request_data["service_id"]).ok
             /\ svc = session_get(PyIntOf(request_data["service_id"]).n)
        ELSE IF Present(request_data, "service_name")
        THEN svc = get_service_by_name(request_data["service_name"].s)
        ELSE /\ Truthy(path)
             /\ Truthy(Get(Normalize(request_data), "method"))
             /\ svc = ProxyMatch(list_services, path.s,
                                 Normalize(request_data).method.s)

\* C2: a request that carries a serviceId, whatever its value and whatever
\* else it carries, ends 400 when the value is no integer and 404 when
\* registry.get(id) finds nothing; names and the heuristic are not consulted.
C2_IdErrors ==
    (pc = "done" /\ Present(request_data, "service_id")) =>
        LET id == PyIntOf(request_data["service_id"])
        IN  /\ ~id.ok => response.status = 400
            /\ (id.ok /\ id.n \notin Ids) => response.status = 404

\* the request of C3
IsPathXGet ==
    /\ entry = "proxy"
    /\ ~Present(request_data, "service_id")
    /\ ~Present(request_data, "service_name")
    /\ Get(request_data, "path") = PyStr("/x")
    /\ Get(request_data, "method") = PyStr("GET")
    /\ DOMAIN request_data = {"path", "method"}

\* the rows registered with servicePath "/x", and those among them with
\* method GET
RowsX == {i \in Ids : services[i].service_path = "/x"}
RowsXGet == {i \in RowsX : services[i].method = "GET"}
MinOf(S) == CHOOSE i \in S : \A j \in S : i <= j

\* C3 as stated: of two descriptors with servicePath "/x", whatever their
\* methods, the request path="/x", method="GET" without id or name resolves
\* to the one registered earlier.
C3_EarlierOfTwo ==
    (IsPathXGet /\ pc = "resolved") =>
        \A i, j \in RowsX : i < j => service_id = PyInt(i)

\* C3, amended: that request resolves to the earliest registered descriptor
\* with servicePath "/x" and method GET, and when there is none to the
\* earliest registered descriptor with servicePath "/x"; the choice depends
\* on the registry alone.
C3_Determinism ==
    (IsPathXGet /\ RowsX # {} /\ pc \in {"resolved", "client_open", "awaiting"}) =>
        LET want == IF RowsXGet # {} THEN MinOf(RowsXGet) ELSE MinOf(RowsX)
        IN  /\ service_id = PyInt(want)
            /\ Fetched => svc = services[want]

\* two descriptors with servicePath "/x", the later one the GET, and the
\* request resolved to it
C3_Witness ==
    /\ IsPathXGet /\ pc = "client_open"
    /\ Cardinality(RowsX) = 2
    /\ RowsXGet = {2}
    /\ svc = services[2]

\* C6: a call whose upstream does not answer within the timeout ends 408 on
\* /proxy and on /mcp_call; 502 is for the other transport failures.
C6_TimeoutIs408 ==
    pc = "done" =>
        /\ upstream = "timeout" => response.status = 408
        /\ (response.status = 502 /\ upstream # "answered") => upstream = "error"

\* GET, POST, PUT, PATCH, DELETE, HEAD, OPTIONS
AllowedMethods == {"GET", "POST", "PUT", "PATCH", "DELETE", "HEAD", "OPTIONS"}

\* C7: the outbound method is the request's method, else the descriptor's,
\* uppercased; a request goes out only with one of the seven methods, any
\* other method ends 400 with nothing sent, and none of the seven is refused.
C7_MethodAllowList ==
    (Fetched /\ pc \in {"awaiting", "done"}) =>
        LET m == Upper(method.s)
        IN  /\ sent # <<>> => (m \in AllowedMethods /\ sent[1].method = m)
            /\ (pc = "done" /\ m \notin AllowedMethods) =>
                  (response.status = 400 /\ sent = <<>>)
            /\ (pc = "done" /\ m \in AllowedMethods /\ sent = <<>>) =>
                  response.status # 400

\* the message holds the entry "name (METHOD path)" of row
Mentions(detail, row) ==
    \E k \in 1..(Len(detail) - 5) :
        SubSeq(detail, k, k + 5) =
            <<row.name, " (", row.method, " ", row.service_path, ")">>

\* C8: when the heuristic of proxy_call finds nothing in any pass the call
\* ends 400 and its message lists every registered descriptor as
\* "name (METHOD path)".
C8_NoMatchListsServices ==
    (/\ entry = "proxy" /\ pc = "done"
     /\ ~Present(request_data, "service_id")
     /\ ~Present(request_data, "service_name")
     /\ Truthy(path) /\ Truthy(method)
     /\ ProxyMatch(list_services, path.s, method.s) = NoSvc) =>
        /\ response.status = 400
        /\ \A i \in Ids : Mentions(response.detail, services[i])

\* the outbound requests of the call that record a call of name
StatsAttempts(name) ==
    {k \in DOMAIN sent :
        /\ sent[k].path = "/api/monitoring/record_call"
        /\ sent[k].json = PyDict([service_name |-> PyStr(name)])}

\* C9: a call that was forwarded has issued one recordCall(serviceName)
\* attempt for the service it resolved to.
C9_StatsIssued ==
    (pc = "done" /\ upstream # "none") =>
        Cardinality(StatsAttempts(svc.name)) = 1

\* C10: a call that reaches forwarding opens one client and issues at most
\* one request; the client is open while the call is in flight and closed
\* on every way out, so a finished call leaves no client open.
C10_ClientLifecycle ==
    /\ Len(sent) <= 1
    /\ open_clients \in {0, 1}
    /\ pc \in {"client_open", "awaiting"} =>
          (client.state = "open" /\ open_clients = 1)
    /\ pc \in {"idle", "resolved", "done"} => open_clients = 0
    /\ (pc = "done" /\ Fetched) => client.state = "closed"
    /\ (pc = "done" /\ ~Fetched) => client.state = "none"

\* a call that timed out has closed its client
C10_Witness ==
    /\ pc = "done" /\ Fetched
    /\ upstream = "timeout"
    /\ client.state = "closed"
    /\ open_clients = 0

\* the nested data object of the payload, and its re-nested params object
DataOf(rd) ==
    IF "data" \in DOMAIN rd /\ IsDict(rd["data"]) THEN rd["data"].d ELSE EmptyMap

IsReNested(v) == IsDict(v) /\ "method" \in DOMAIN v.d

ReNestedOf(rd) ==
    IF IsReNested(Get(rd, "params")) THEN rd["params"].d
    ELSE IF IsReNested(Get(DataOf(rd), "params")) THEN DataOf(rd)["params"].d
    ELSE EmptyMap

\* the local that holds field f of the canonical request
LocalOf(f) ==
    CASE f = "method"  -> method
      [] f = "path"    -> path
      [] f = "params"  -> params
      [] f = "json"    -> json_data
      [] f = "timeout" -> timeout
      [] f = "headers" -> headers

\* the top-level value of f as the canonical request holds it: JSON text
\* decoded, and the true query parameters taken out of a re-nested params
TopLevelValue(rd, f) ==
    CASE f = "json" -> LoadsIfStr(rd[f])
      [] f = "params" ->
            IF IsReNested(rd[f]) THEN LoadsIfStr(GetOr(rd[f].d, "params", EmptyDict))
            ELSE LoadsIfStr(rd[f])
      [] OTHER -> rd[f]

\* C4: a field given at the top level, whatever its value (0, "", {} and
\* false included), is the canonical value whenever the nested data object
\* or the re-nested params object gives the same field too.
C4_TopLevelWins ==
    (entry = "proxy" /\ pc = "done") =>
        \A f \in Fields :
            (/\ f \in DOMAIN request_data
             /\ f \in DOMAIN DataOf(request_data) \cup DOMAIN ReNestedOf(request_data))
            => LocalOf(f) = TopLevelValue(request_data, f)

\* queryParams, body, method, path, timeout and headers of a normalised
\* request
CanonOf(n) == <<n.params, n.json_data, n.method, n.path, n.timeout, n.headers>>

\* C5: a JSON value v given as params or json, and the JSON text of v given
\* in its place, normalise to the same canonical request.
C5_EncodedSameAsDecoded ==
    (entry = "proxy" /\ pc = "done") =>
        \A f \in {"params", "json"} :
            (f \in DOMAIN request_data /\ request_data[f] \in JsonValues) =>
                CanonOf(Normalize([request_data EXCEPT
                                      ![f] = PyStr(JsonDumps(request_data[f]))]))
                = <<params, json_data, method, path, timeout, headers>>

\* C11: a call that gives no timeout of its own uses one value of the
\* process-wide default for its whole lifetime: the request it issues
\* carries the timeout the client was opened with, whatever update_config
\* does meanwhile.
C11_OneDefaultPerCall ==
    (pc \in {"awaiting", "done"} /\ Len(sent) = 1 /\ IsNone(timeout)) =>
        sent[1].timeout = PyInt(client.timeout)

\* C12: whatever the upstream answers (any status code, JSON parsed, JSON
\* content type with a body that is not JSON, any other content type), the
\* status of the response the call returns is the upstream's status code,
\* and the response is an envelope, not a gateway error.
C12_StatusPassthrough ==
    [][\A resp \in UpstreamResponses :
          (proxy_call_response(resp) \/ mcp_simple_call_response(resp)) =>
              /\ response'.status = resp.status_code
              /\ response'.detail = <<>>]_vars

\* an upstream 503 came back through /proxy as a 503 envelope
C12_Witness ==
    /\ entry = "proxy" /\ pc = "done" /\ upstream = "answered"
    /\ response.status = 503
    /\ Get(response.content.d, "raw") = PyStr("busy")

\* the content type the upstream named is a JSON one
IsJsonType(resp) == HasJson(Lower(resp.content_type))

\* C13: on /proxy an upstream answer with a JSON content type and a body
\* that is not JSON comes back as {"raw": <text>} with the upstream status,
\* and an answer with any other content type as {"raw": <text>,
\* "content_type": <the header's value>}.
C13_GracefulDegradation ==
    [][\A resp \in UpstreamResponses :
          proxy_call_response(resp) =>
              /\ (IsJsonType(resp) /\ ~JsonLoads(resp.text).ok) =>
                    response' = JSONResponse(resp.status_code,
                                             PyDict([raw |-> PyStr(resp.text)]))
              /\ ~IsJsonType(resp) =>
                    response' = JSONResponse(resp.status_code,
                        PyDict([raw |-> PyStr(resp.text),
                                content_type |-> PyStr(resp.content_type)]))]_vars

\* C14: on /proxy and on /mcp_call the path of the outbound request is the
\* descriptor's servicePath when that is not empty, and the path the caller
\* gave only when it is empty.
C14_OutboundPath ==
    (Len(sent) >= 1 /\ Fetched) =>
        sent[1].path = IF svc.service_path # "" THEN svc.service_path ELSE path.s

\* C15: whatever urls create_service and update_service were given, no
\* stored descriptor has a url that ends in a slash.
C15_NoTrailingSlash == \A i \in Ids : ~EndsWithSlash(services[i].url)

\* a /proxy call that names no service and gives a path and a method
HeuristicCall ==
    /\ entry = "proxy"
    /\ DOMAIN request_data = {"path", "method"}
    /\ IsStr(request_data["path"]) /\ Truthy(request_data["path"])
    /\ IsStr(request_data["method"]) /\ Truthy(request_data["method"])

\* the registered ids each pass of the heuristic can hit for the request
PathIds == {i \in Ids : services[i].service_path = request_data["path"].s}
ExactIds ==
    {i \in PathIds : Upper(services[i].method) = Upper(request_data["method"].s)}
SubstringIds ==
    {i \in Ids : \/ StrIn(request_data["path"].s, services[i].service_path)
                 \/ StrIn(services[i].service_path, request_data["path"].s)}

\* C16: the heuristic of /proxy selects the earliest registered descriptor
\* with the request's path and (case-insensitively) its method; when there
\* is none, the earliest with the request's path; when there is none, the
\* earliest whose servicePath contains the path or is contained in it; and
\* it fails only when there is none of these.
C16_ThreePasses ==
    HeuristicCall =>
        /\ pc \in {"resolved", "client_open", "awaiting"} =>
              /\ SubstringIds # {}
              /\ service_id = PyInt(IF ExactIds # {} THEN MinOf(ExactIds)
                                    ELSE IF PathIds # {} THEN MinOf(PathIds)
                                    ELSE MinOf(SubstringIds))
        /\ (pc = "done" /\ upstream = "none") => SubstringIds = {}

\* a substring match is registered first and a path-only match second, and
\* the call resolved to the second
C16_Witness ==
    /\ HeuristicCall /\ pc = "resolved"
    /\ ExactIds = {} /\ PathIds = {2} /\ 1 \in SubstringIds
    /\ service_id = PyInt(2)

\* C17: on /proxy a call that, once normalised, names no service and lacks
\* the path or the method ends with a 400; a call that ends with a 400 or a
\* 404 of its own before forwarding has opened no client and issued no
\* request; and no call issues a second request, an upstream failure ends
\* it after the one it issued.
C17_StageFailuresTerminal ==
    /\ (entry = "proxy" /\ IsNone(service_id) /\ IsNone(service_name)
           /\ (IsNone(path) \/ IsNone(method))) =>
          (pc = "done" /\ response.status = 400)
    /\ (entry = "proxy" /\ pc = "done" /\ upstream = "none"
           /\ response.status \in {400, 404}) =>
          (client = NoClient /\ sent = <<>>)
    /\ Len(sent) <= 1
    /\ upstream \in {"timeout", "error"} => (pc = "done" /\ Len(sent) = 1)

\* a /proxy call with a path, no method and no service named has ended
\* with a 400 and without a client
C17_Witness ==
    /\ entry = "proxy" /\ pc = "done"
    /\ IsNone(service_id) /\ IsNone(service_name)
    /\ ~IsNone(path) /\ IsNone(method)
    /\ response.status = 400
    /\ client = NoClient /\ sent = <<>>

\* C18: whenever no record_service_call is in progress, the call_count
\* stored for each name is the number of record_service_call requests for
\* that name that answered "success".
C18_CallCountConsistency ==
    (\A t \in Threads : record_pc[t] = NotRecording) =>
        \A n \in RecordNames :
            call_count(stats_file, n) = call_count(recorded, n)

\* C19: whenever no update_config is in progress, the default timeout the
\* forwarder uses is the persisted one that get_config returns.
C19_TimeoutConfigConsistency ==
    (\A t \in Threads : config_pc[t] = "idle") =>
        DEFAULT_TIMEOUT_SECONDS = get_config

\* C20: the descriptor a call has read for forwarding is one the caller
\* asked for: it has the requested name when the call named a service, and
\* it matches the requested path in a pass of the endpoint's heuristic when
\* the call gave a path and a method only.
C20_ForwardsToWhatWasAsked ==
    Fetched =>
        /\ DOMAIN request_data = {"service_name"} =>
              svc.name = request_data["service_name"].s
        /\ DOMAIN request_data = {"path", "method"} =>
              \/ svc.service_path = request_data["path"].s
              \/ /\ entry = "proxy"
                 /\ \/ StrIn(request_data["path"].s, svc.service_path)
                    \/ StrIn(svc.service_path, request_data["path"].s)

====
